---- MODULE Spec2Model ----
(***************************************************************************)
(* A model of cabot's status evaluation and alert escalation engine        *)
(* (app/cabotapp/models.py): check executors and the debounced status,     *)
(* service aggregation and the alert throttle, the fallback duty officer   *)
(* and the shift synchronizer.                                             *)
(*                                                                         *)
(* Times are whole minutes.  A nullable column holds NULL (the empty       *)
(* tuple) or <<v>>.                                                        *)
(***************************************************************************)
EXTENDS Integers, Sequences, FiniteSets, TLC

NULL == <<>>

PASSING_STATUS == "PASSING"
WARNING_STATUS == "WARNING"
ERROR_STATUS == "ERROR"
CRITICAL_STATUS == "CRITICAL"

CALCULATED_PASSING_STATUS == "passing"
CALCULATED_INTERMITTENT_STATUS == "intermittent"
CALCULATED_FAILING_STATUS == "failing"

IMPORTANCES == {WARNING_STATUS, ERROR_STATUS, CRITICAL_STATUS}

(* ------------------------------ bounds -------------------------------- *)

\* Longest result history of the check in the debounce specification.
MaxHistory == 11
\* Longest result history of the check in the build-check specification.
MaxRuns == 3
\* Minutes a probe takes (start to completion of one run).
RunElapsed == 1
\* The debounce values a check is configured with.
Debounces == {0, 1, 2, 10}
\* The checks of the service.
NumChecks == 2
\* The concurrent callers of update_status.
NumWorkers == 2
\* The user profiles.
NumProfiles == 3
\* The concurrent callers of UserProfile.save.
NumSavers == 2
\* The users.
NumUsers == 2
\* The concurrent runs of one check.
NumRunners == 2
\* The clock of the shift specification stops at ShiftHorizon.
ShiftHorizon == 2
\* Minutes between two readings of the clock by the service's handlers.
ClockStep == 5
\* The clock stops at MaxTime.
MaxTime == 125

(* --------------------------- program constants ------------------------ *)

\* recent_results keeps the 10 latest results.
RecentLimit == 10
\* Minutes between two alerts of a service in WARNING.
WarningCooldown == 120
\* Minutes between two alerts of a service in ERROR or CRITICAL.
ErrorCooldown == 10

CheckIds == 1..NumChecks

Workers == 1..NumWorkers

ProfileIds == 1..NumProfiles

Savers == 1..NumSavers

UserIds == 1..NumUsers

Runners == 1..NumRunners

VARIABLES
  now,                \* timezone.now(), in minutes
  debounce,           \* StatusCheck.debounce of the executed check
  calculated_status,  \* StatusCheck.calculated_status of the executed check
  cached_health,      \* StatusCheck.cached_health of the executed check
  last_run,           \* StatusCheck.last_run of the executed check
  status_code,        \* StatusCheck.status_code (endpoint check)
  text_match,         \* StatusCheck.text_match (endpoint check)
  max_queued_build_time, \* StatusCheck.max_queued_build_time (build check)
  check_type,         \* StatusCheck.check_type (metric check)
  value,              \* StatusCheck.value (metric check), as float(value)
  expected_num_hosts, \* StatusCheck.expected_num_hosts (metric check)
  results,            \* the check's StatusCheckResult rows, in insertion order
  runners,            \* each concurrent run of the check: its place and locals
  status_checks,      \* Service.status_checks: each check's row
  overall_status,     \* Service.overall_status
  old_overall_status, \* Service.old_overall_status
  last_alert_sent,    \* Service.last_alert_sent
  alerts_enabled,     \* Service.alerts_enabled
  snapshot,           \* the ServiceStatusSnapshot of the latest cycle
  dispatched,         \* send_alert was called in the latest cycle
  pc,                 \* each concurrent caller of update_status: its place
  mem,                \* each concurrent caller's Service object and locals
  snapshot_rows,      \* the snapshot row each concurrent caller has stored
  profiles,           \* the UserProfile rows
  savers,             \* each concurrent caller of UserProfile.save
  shifts,             \* the Shift rows, in insertion order
  events,             \* get_events(): the calendar feed
  users,              \* the User rows
  lastOp              \* the last operation: its name, input and exception

checkVars == <<debounce, calculated_status, cached_health, last_run,
               status_code, text_match, max_queued_build_time, check_type,
               value, expected_num_hosts, results, runners>>

serviceVars == <<status_checks, overall_status, old_overall_status,
                 last_alert_sent, alerts_enabled, snapshot, dispatched>>

workerVars == <<pc, mem, snapshot_rows>>

profileVars == <<profiles, savers>>

shiftVars == <<shifts, events, users>>

vars == <<now, checkVars, serviceVars, workerVars, profileVars, shiftVars,
          lastOp>>

\* What a check's run leaves alone, what the service's handlers do, and
\* what a profile's save does.
notCheck == <<serviceVars, workerVars, profileVars, shiftVars>>
notService == <<checkVars, workerVars, profileVars, shiftVars>>
notProfile == <<now, checkVars, serviceVars, workerVars, shiftVars>>
notShift == <<checkVars, serviceVars, workerVars, profileVars>>

Op(name, arg, raised) == [op |-> name, arg |-> arg, raised |-> raised]

\* An operation of the environment: a row edited, time passing.
EnvOp == Op("environment", NULL, "none")

Min(a, b) == IF a < b THEN a ELSE b
Max(a, b) == IF a > b THEN a ELSE b

(* ----------------------- the debounce evaluator ----------------------- *)

\* Python's seq[:n].
SliceTo(s, n) ==
  IF n >= 0 THEN SubSeq(s, 1, Min(n, Len(s)))
  ELSE SubSeq(s, 1, Max(Len(s) + n, 0))

\* order_by('-time_complete'): the rows by completion time, latest first.
RECURSIVE OrderByTimeCompleteDesc(_, _)
OrderByTimeCompleteDesc(rows, left) ==
  IF left = {} THEN <<>>
  ELSE LET i == CHOOSE k \in left :
                  \A j \in left :
                     \/ rows[k].time_complete[1] > rows[j].time_complete[1]
                     \/ /\ rows[k].time_complete = rows[j].time_complete
                        /\ k <= j
       IN <<rows[i]>> \o OrderByTimeCompleteDesc(rows, left \ {i})

recent_results(rows) ==
  SliceTo(OrderByTimeCompleteDesc(rows, DOMAIN rows), RecentLimit)

calculate_debounced_passing(recent, d) ==
  IF recent = <<>> THEN TRUE
  ELSE LET debounce_window == SliceTo(recent, d + 1)
       IN \E i \in DOMAIN debounce_window : debounce_window[i].succeeded

Reverse(s) == [i \in 1..Len(s) |-> s[Len(s) + 1 - i]]

serialize_recent_results(recent) ==
  IF recent = <<>> THEN <<>>
  ELSE Reverse([i \in DOMAIN recent |-> IF recent[i].succeeded THEN 1 ELSE -1])

\* StatusCheck.save: the derived columns, from the rows stored at the save.
SavedStatus(rows, d) ==
  IF calculate_debounced_passing(recent_results(rows), d)
  THEN CALCULATED_PASSING_STATUS
  ELSE CALCULATED_FAILING_STATUS

StatusCheckSave(rows, finish) ==
  /\ calculated_status' = SavedStatus(rows, debounce)
  /\ cached_health' = serialize_recent_results(recent_results(rows))
  /\ last_run' = finish
  /\ UNCHANGED <<debounce, status_code, text_match, max_queued_build_time,
                 check_type, value, expected_num_hosts, runners>>

StatusCheckResult(start, finish, succeeded, error) ==
  [time |-> start, time_complete |-> finish, succeeded |-> succeeded,
   error |-> error]

(* --------------------------- the metric check ------------------------- *)

\* CHECK_TYPES, and a check_type outside of it.
CheckTypes == {"<", "<=", ">", ">=", "==", "!="}

\* What parse_metric answers: whether the query failed, the series with
\* data, and their least and greatest values (all_values holds both).
MetricSeries ==
  {sr \in [error : BOOLEAN, num_series_with_data : 0..2,
           min : {1, 3}, max : {3, 5}] : sr.min <= sr.max}

\* Lines 401-423: the comparison of the check's type; failed is a Boolean.
Compare(series) ==
  CASE check_type = "<" ->
         [raised |-> "none", failed |-> series.min < value,
          failure_value |-> series.min]
    [] check_type = "<=" ->
         [raised |-> "none", failed |-> series.min <= value,
          failure_value |-> series.min]
    [] check_type = ">" ->
         [raised |-> "none", failed |-> series.max > value,
          failure_value |-> series.max]
    [] check_type = ">=" ->
         [raised |-> "none", failed |-> series.max >= value,
          failure_value |-> series.max]
    [] check_type = "==" ->
         [raised |-> "none", failed |-> value \in {series.min, series.max},
          failure_value |-> value]
    [] OTHER ->
         [raised |-> "Exception", failed |-> FALSE, failure_value |-> 0]

\* format_error_message, by its parts.
format_error_message(failure_value) ==
  IF failure_value = NULL THEN <<"Failed to get metric from Graphite">>
  ELSE IF expected_num_hosts > 0
  THEN <<"failure_value check_type value", "actual/expected hosts">>
  ELSE <<"failure_value check_type value">>

\* Lines 388-441: the result of a run that reaches result.save(), or the
\* exception of one that does not.  failed is None (NULL) or a Boolean.
GraphiteOutcome(series) ==
  LET failed0 == IF series.error THEN <<TRUE>> ELSE NULL
      with_data == series.num_series_with_data > 0
      cmp == Compare(series)
      failed1 == IF with_data THEN <<cmp.failed>> ELSE failed0
      failure_value == IF with_data /\ cmp.failed
                       THEN <<cmp.failure_value>> ELSE NULL
      failed2 == IF series.num_series_with_data < expected_num_hosts
                 THEN <<TRUE>> ELSE failed1
      succeeded == failed2 # <<TRUE>>
  IN IF with_data /\ cmp.raised # "none"
     THEN [raised |-> cmp.raised, succeeded |-> FALSE,
           failure_value |-> NULL, error |-> NULL]
     ELSE [raised |-> "none", succeeded |-> succeeded,
           failure_value |-> failure_value,
           error |-> IF ~succeeded THEN format_error_message(failure_value)
                     ELSE NULL]

GraphiteStatusCheckRun(series, cap) ==
  /\ Len(results) < cap
  /\ LET start == now
         finish == now + RunElapsed
         out == GraphiteOutcome(series)
         row == StatusCheckResult(<<start>>, <<finish>>, out.succeeded, out.error)
         rows == Append(results, row)
         arg == [series |-> series, failure_value |-> out.failure_value]
     IN IF out.raised # "none"
        THEN /\ lastOp' = Op("graphite_run", arg, out.raised)
             /\ UNCHANGED <<now, checkVars, notCheck>>
        ELSE /\ now' = finish
             /\ results' = rows
             /\ StatusCheckSave(rows, <<finish>>)
             /\ lastOp' = Op("graphite_run", arg, "none")
             /\ UNCHANGED notCheck

(* -------------------------- the endpoint check ------------------------ *)

\* What requests.get does: it raises, or answers with a code and a body
\* that the check's pattern matches or not.
HttpProbes ==
  {[exc |-> TRUE, code |-> 0, body_matches |-> FALSE]}
  \cup [exc : {FALSE}, code : {200, 500}, body_matches : BOOLEAN]

HttpOutcome(probe) ==
  IF probe.exc
  THEN [succeeded |-> FALSE, error |-> <<"Request error occurred">>]
  ELSE IF status_code # NULL /\ probe.code # status_code[1]
  THEN [succeeded |-> FALSE, error |-> <<"Wrong code">>]
  ELSE IF text_match # NULL
  THEN IF ~probe.body_matches
       THEN [succeeded |-> FALSE, error |-> <<"Failed to find match regex">>]
       ELSE [succeeded |-> TRUE, error |-> NULL]
  ELSE [succeeded |-> TRUE, error |-> NULL]

HttpStatusCheckRun(probe, cap) ==
  /\ Len(results) < cap
  /\ LET start == now
         finish == now + RunElapsed
         out == HttpOutcome(probe)
         row == StatusCheckResult(<<start>>, <<finish>>, out.succeeded, out.error)
         rows == Append(results, row)
     IN /\ now' = finish
        /\ results' = rows
        /\ StatusCheckSave(rows, <<finish>>)
        /\ lastOp' = Op("http_run", probe, "none")
        /\ UNCHANGED notCheck

(* --------------------------- the build check -------------------------- *)

\* What get_job_status does: it raises requests.HTTPError (the job is not
\* found), raises something else, or answers with the job's status;
\* blocked_build_time is in seconds, 0 when no build is blocked.
JenkinsAnswers ==
  [exc : {"HTTPError", "Exception"}, active : {FALSE}, succeeded : {FALSE},
   blocked_build_time : {0}]
  \cup [exc : {"none"}, active : BOOLEAN, succeeded : BOOLEAN,
        blocked_build_time : {0, 30, 90}]

BlockedTooLong(answer) ==
  /\ max_queued_build_time # NULL
  /\ max_queued_build_time[1] # 0
  /\ answer.blocked_build_time # 0
  /\ answer.blocked_build_time > max_queued_build_time[1] * 60

\* JenkinsOutcome with the blanket except clause recording a failure.
JenkinsOutcomeFailsOnError(answer) ==
  IF answer.exc # "none"
  THEN [raised |-> "none", succeeded |-> FALSE,
        error |-> <<"Job not found on Jenkins">>]
  ELSE [raised |-> "none", succeeded |-> answer.succeeded, error |-> NULL]

\* The result of a run that reaches result.save(), or the exception of one
\* that does not.
JenkinsOutcome(answer) ==
  IF answer.exc = "HTTPError"
  THEN [raised |-> "none", succeeded |-> FALSE,
        error |-> <<"Job not found on Jenkins">>]
  ELSE IF answer.exc # "none"
  THEN [raised |-> "none", succeeded |-> TRUE,
        error |-> <<"Error fetching from Jenkins">>]
  ELSE IF ~answer.active
  THEN \* 'Job disabled on Jenkins' % self.name: a format string without a
       \* conversion, applied to the name
       [raised |-> "TypeError", succeeded |-> FALSE, error |-> NULL]
  ELSE LET blocked == BlockedTooLong(answer)
           succeeded == IF blocked THEN FALSE ELSE answer.succeeded
           error1 == IF blocked THEN <<"blocked build waiting">> ELSE NULL
           error2 == IF ~answer.succeeded
                     THEN error1 \o <<"failing on Jenkins">>
                     ELSE error1
       IN [raised |-> "none", succeeded |-> succeeded, error |-> error2]

JenkinsStatusCheckRun(answer, cap) ==
  /\ Len(results) < cap
  /\ LET start == now
         finish == now + RunElapsed
         out == JenkinsOutcome(answer)
         row == StatusCheckResult(<<start>>, <<finish>>, out.succeeded, out.error)
         rows == Append(results, row)
     IN IF out.raised # "none"
        THEN /\ lastOp' = Op("jenkins_run", answer, out.raised)
             /\ UNCHANGED <<now, checkVars, notCheck>>
        ELSE /\ now' = finish
             /\ results' = rows
             /\ StatusCheckSave(rows, <<finish>>)
             /\ lastOp' = Op("jenkins_run", answer, "none")
             /\ UNCHANGED notCheck


(* ------------- runs of one check, one store operation at a time ------- *)

\* A run before it starts.
IdleRunner ==
  [pc |-> "idle", start |-> 0, finish |-> 0, succeeded |-> FALSE,
   error |-> NULL, calculated_status |-> CALCULATED_PASSING_STATUS,
   cached_health |-> NULL]

RunnerOp == Op("run_step", NULL, "none")

RunnerFrame ==
  /\ lastOp' = RunnerOp
  /\ UNCHANGED <<now, debounce, status_code, text_match,
                 max_queued_build_time, check_type, value,
                 expected_num_hosts, notCheck>>

\* Lines 458-484: the run reads the clock and probes the endpoint.
BeginRun(r, probe) ==
  /\ runners[r].pc = "idle"
  /\ LET out == HttpOutcome(probe)
     IN runners' = [runners EXCEPT ![r] =
                      [IdleRunner EXCEPT !.pc = "finish", !.start = now,
                                         !.succeeded = out.succeeded,
                                         !.error = out.error]]
  /\ UNCHANGED <<results, calculated_status, cached_health, last_run>>
  /\ RunnerFrame

\* Lines 486-487: the clock is read again.
FinishProbe(r) ==
  /\ runners[r].pc = "finish"
  /\ runners' = [runners EXCEPT ![r].pc = "save_result", ![r].finish = now]
  /\ UNCHANGED <<results, calculated_status, cached_health, last_run>>
  /\ RunnerFrame

\* Line 488: result.save().
SaveResult(r) ==
  /\ runners[r].pc = "save_result"
  /\ results' = Append(results,
                       StatusCheckResult(<<runners[r].start>>,
                                         <<runners[r].finish>>,
                                         runners[r].succeeded,
                                         runners[r].error))
  /\ runners' = [runners EXCEPT ![r].pc = "read_recent"]
  /\ UNCHANGED <<calculated_status, cached_health, last_run>>
  /\ RunnerFrame

\* Lines 350-355: save reads the recent results and derives the columns in
\* the run's object.
ReadRecent(r) ==
  /\ runners[r].pc = "read_recent"
  /\ runners' = [runners EXCEPT
                   ![r].pc = "write_check",
                   ![r].calculated_status = SavedStatus(results, debounce),
                   ![r].cached_health =
                      serialize_recent_results(recent_results(results))]
  /\ UNCHANGED <<results, calculated_status, cached_health, last_run>>
  /\ RunnerFrame

\* Line 356: the check's row is written from the run's object.
WriteCheckRow(r) ==
  /\ runners[r].pc = "write_check"
  /\ calculated_status' = runners[r].calculated_status
  /\ cached_health' = runners[r].cached_health
  /\ last_run' = <<runners[r].finish>>
  /\ runners' = [runners EXCEPT ![r].pc = "done"]
  /\ UNCHANGED results
  /\ RunnerFrame

\* Time passes while the runs are under way.
TickRun ==
  /\ now + RunElapsed <= NumRunners * RunElapsed
  /\ now' = now + RunElapsed
  /\ lastOp' = EnvOp
  /\ UNCHANGED <<checkVars, notCheck>>

(* ------------------------- the service aggregator --------------------- *)

active_status_checks ==
  {c \in CheckIds : status_checks[c].active}

all_failing_checks ==
  {c \in active_status_checks :
     status_checks[c].calculated_status # CALCULATED_PASSING_STATUS}

\* most_severe with ERROR looked for before CRITICAL.
most_severe_ErrorFirst(check_list) ==
  LET failures == {status_checks[c].importance : c \in check_list}
  IN IF ERROR_STATUS \in failures THEN ERROR_STATUS
     ELSE IF CRITICAL_STATUS \in failures THEN CRITICAL_STATUS
     ELSE IF WARNING_STATUS \in failures THEN WARNING_STATUS
     ELSE PASSING_STATUS

most_severe(check_list) ==
  LET failures == {status_checks[c].importance : c \in check_list}
  IN IF CRITICAL_STATUS \in failures THEN CRITICAL_STATUS
     ELSE IF ERROR_STATUS \in failures THEN ERROR_STATUS
     ELSE IF WARNING_STATUS \in failures THEN WARNING_STATUS
     ELSE PASSING_STATUS

is_critical(old, new) ==
  old # CRITICAL_STATUS /\ new = CRITICAL_STATUS

\* The snapshot row, but for its time.
ServiceStatusSnapshot(active, passing, failing, status) ==
  [num_checks_active |-> active, num_checks_passing |-> passing,
   num_checks_failing |-> failing, overall_status |-> status,
   did_send_alert |-> FALSE]

(* ---------------------------- the alert throttle ---------------------- *)

\* Throttled with the 10 minute window for every status.
ThrottledOneWindow(status, last, t) ==
  last # NULL /\ t - ErrorCooldown < last[1]

\* The early returns of alert for a status that is not PASSING.
Throttled(status, last, t) ==
  IF status = WARNING_STATUS
  THEN last # NULL /\ t - WarningCooldown < last[1]
  ELSE IF status \in {CRITICAL_STATUS, ERROR_STATUS}
  THEN last # NULL /\ t - ErrorCooldown < last[1]
  ELSE FALSE

\* alert without the early return of a service with alerts disabled.
alert_IgnoringEnabled(enabled, status, last, t) ==
  IF status # PASSING_STATUS
  THEN IF Throttled(status, last, t)
       THEN [sent |-> FALSE, last_alert_sent |-> last]
       ELSE [sent |-> TRUE, last_alert_sent |-> <<t>>]
  ELSE [sent |-> TRUE, last_alert_sent |-> NULL]

\* alert returning on a PASSING status once last_alert_sent is cleared.
alert_SilentRecovery(enabled, status, last, t) ==
  IF ~enabled THEN [sent |-> FALSE, last_alert_sent |-> last]
  ELSE IF status # PASSING_STATUS
  THEN IF Throttled(status, last, t)
       THEN [sent |-> FALSE, last_alert_sent |-> last]
       ELSE [sent |-> TRUE, last_alert_sent |-> <<t>>]
  ELSE [sent |-> FALSE, last_alert_sent |-> NULL]

\* alert leaving last_alert_sent as it is on a PASSING status.
alert_KeepingThrottle(enabled, status, last, t) ==
  IF ~enabled THEN [sent |-> FALSE, last_alert_sent |-> last]
  ELSE IF status # PASSING_STATUS
  THEN IF Throttled(status, last, t)
       THEN [sent |-> FALSE, last_alert_sent |-> last]
       ELSE [sent |-> TRUE, last_alert_sent |-> <<t>>]
  ELSE [sent |-> TRUE, last_alert_sent |-> last]

\* Service.alert: whether it reaches send_alert, and the last_alert_sent it
\* leaves.
alert(enabled, status, last, t) ==
  IF ~enabled THEN [sent |-> FALSE, last_alert_sent |-> last]
  ELSE IF status # PASSING_STATUS
  THEN IF Throttled(status, last, t)
       THEN [sent |-> FALSE, last_alert_sent |-> last]
       ELSE [sent |-> TRUE, last_alert_sent |-> <<t>>]
  ELSE [sent |-> TRUE, last_alert_sent |-> NULL]

\* Service.update_status, run on the stored service by one caller.
UpdateStatus ==
  LET old == overall_status
      status_checks_failed_count == Cardinality(all_failing_checks)
      new == most_severe(all_failing_checks)
      active == Cardinality(active_status_checks)
      snap == ServiceStatusSnapshot(active, active - status_checks_failed_count,
                                    status_checks_failed_count, new)
      a == IF ~(new = PASSING_STATUS /\ old = PASSING_STATUS)
           THEN alert(alerts_enabled, new, last_alert_sent, now)
           ELSE [sent |-> FALSE, last_alert_sent |-> last_alert_sent]
  IN /\ old_overall_status' = old
     /\ overall_status' = new
     /\ last_alert_sent' = a.last_alert_sent
     /\ snapshot' = [snap EXCEPT !.did_send_alert = a.sent]
     /\ dispatched' = a.sent
     /\ lastOp' = Op("update_status", NULL, "none")
     /\ UNCHANGED <<now, notService, status_checks, alerts_enabled>>

\* The rows a check of the service can hold.
CheckRows ==
  [active : BOOLEAN, importance : IMPORTANCES,
   calculated_status : {CALCULATED_PASSING_STATUS, CALCULATED_FAILING_STATUS}]

\* A check of the service is saved: by its run, or edited.
WriteCheck(c, row) ==
  /\ status_checks' = [status_checks EXCEPT ![c] = row]
  /\ lastOp' = EnvOp
  /\ UNCHANGED <<now, notService, overall_status, old_overall_status,
                 last_alert_sent, alerts_enabled, snapshot, dispatched>>

\* The service's alerts are switched on or off.
SetAlertsEnabled(b) ==
  /\ alerts_enabled' = b
  /\ lastOp' = EnvOp
  /\ UNCHANGED <<now, notService, status_checks, overall_status,
                 old_overall_status, last_alert_sent, snapshot, dispatched>>

\* Time passes.
Tick(step, horizon) ==
  /\ now + step <= horizon
  /\ now' = now + step
  /\ lastOp' = EnvOp
  /\ UNCHANGED <<serviceVars, notService>>


(* --------------- update_status, one store operation at a time --------- *)

\* A caller's Service object before it is loaded.
NewMem ==
  [overall_status |-> PASSING_STATUS, old_overall_status |-> PASSING_STATUS,
   last_alert_sent |-> NULL, alerts_enabled |-> TRUE,
   status_checks_failed_count |-> 0, num_checks_active |-> 0,
   snapshot |-> ServiceStatusSnapshot(0, 0, 0, PASSING_STATUS),
   sent |-> FALSE]

WorkerOp == Op("update_status_step", NULL, "none")

WorkerFrame ==
  /\ lastOp' = WorkerOp
  /\ UNCHANGED <<now, checkVars, profileVars, shiftVars, status_checks,
                 snapshot, dispatched>>

ServiceRowUnchanged ==
  UNCHANGED <<overall_status, old_overall_status, last_alert_sent,
              alerts_enabled>>

\* Service.save: every column of the row, from the caller's object.
SaveServiceRow(m) ==
  /\ overall_status' = m.overall_status
  /\ old_overall_status' = m.old_overall_status
  /\ last_alert_sent' = m.last_alert_sent
  /\ alerts_enabled' = m.alerts_enabled

\* The caller loads the service from the store.
LoadService(w) ==
  /\ pc[w] = "idle"
  /\ pc' = [pc EXCEPT ![w] = "count_failing"]
  /\ mem' = [mem EXCEPT ![w] =
               [NewMem EXCEPT !.overall_status = overall_status,
                              !.old_overall_status = old_overall_status,
                              !.last_alert_sent = last_alert_sent,
                              !.alerts_enabled = alerts_enabled]]
  /\ ServiceRowUnchanged
  /\ UNCHANGED snapshot_rows
  /\ WorkerFrame

\* Lines 127-129: the failing checks are counted.
CountFailing(w) ==
  /\ pc[w] = "count_failing"
  /\ pc' = [pc EXCEPT ![w] = "most_severe"]
  /\ mem' = [mem EXCEPT
               ![w].old_overall_status = mem[w].overall_status,
               ![w].status_checks_failed_count = Cardinality(all_failing_checks)]
  /\ ServiceRowUnchanged
  /\ UNCHANGED snapshot_rows
  /\ WorkerFrame

\* Line 130: the failing checks are read again, for their importances.
ReadMostSevere(w) ==
  /\ pc[w] = "most_severe"
  /\ pc' = [pc EXCEPT ![w] = "count_active"]
  /\ mem' = [mem EXCEPT ![w].overall_status = most_severe(all_failing_checks)]
  /\ ServiceRowUnchanged
  /\ UNCHANGED snapshot_rows
  /\ WorkerFrame

\* Line 133: the active checks are counted.
CountActive(w) ==
  /\ pc[w] = "count_active"
  /\ pc' = [pc EXCEPT ![w] = "count_passing"]
  /\ mem' = [mem EXCEPT ![w].num_checks_active = Cardinality(active_status_checks)]
  /\ ServiceRowUnchanged
  /\ UNCHANGED snapshot_rows
  /\ WorkerFrame

\* Lines 134-138: the active checks are counted again, and the snapshot built.
CountPassing(w) ==
  /\ pc[w] = "count_passing"
  /\ pc' = [pc EXCEPT ![w] = "save_snapshot"]
  /\ mem' = [mem EXCEPT ![w].snapshot =
               ServiceStatusSnapshot(
                 mem[w].num_checks_active,
                 Cardinality(active_status_checks)
                   - mem[w].status_checks_failed_count,
                 mem[w].status_checks_failed_count,
                 mem[w].overall_status)]
  /\ ServiceRowUnchanged
  /\ UNCHANGED snapshot_rows
  /\ WorkerFrame

\* Line 139: self.snapshot.save().
SaveSnapshot(w) ==
  /\ pc[w] = "save_snapshot"
  /\ pc' = [pc EXCEPT ![w] = "save_service"]
  /\ snapshot_rows' = [snapshot_rows EXCEPT ![w] = mem[w].snapshot]
  /\ ServiceRowUnchanged
  /\ UNCHANGED mem
  /\ WorkerFrame

\* Lines 140-141: self.save(), and whether alert is called.
SaveService(w) ==
  /\ pc[w] = "save_service"
  /\ SaveServiceRow(mem[w])
  /\ pc' = [pc EXCEPT ![w] =
              IF ~(/\ mem[w].overall_status = PASSING_STATUS
                   /\ mem[w].old_overall_status = PASSING_STATUS)
              THEN "alert" ELSE "done"]
  /\ UNCHANGED <<mem, snapshot_rows>>
  /\ WorkerFrame

\* Lines 165-178: alert up to its self.save().
AlertSave(w) ==
  /\ pc[w] = "alert"
  /\ LET a == alert(mem[w].alerts_enabled, mem[w].overall_status,
                    mem[w].last_alert_sent, now)
     IN IF a.sent
        THEN /\ mem' = [mem EXCEPT ![w].last_alert_sent = a.last_alert_sent]
             /\ SaveServiceRow(mem'[w])
             /\ pc' = [pc EXCEPT ![w] = "mark_snapshot"]
        ELSE /\ pc' = [pc EXCEPT ![w] = "done"]
             /\ ServiceRowUnchanged
             /\ UNCHANGED mem
  /\ UNCHANGED snapshot_rows
  /\ WorkerFrame

\* Lines 179-180: the snapshot is marked and saved.
MarkSnapshot(w) ==
  /\ pc[w] = "mark_snapshot"
  /\ pc' = [pc EXCEPT ![w] = "send_alert"]
  /\ mem' = [mem EXCEPT ![w].snapshot.did_send_alert = TRUE]
  /\ snapshot_rows' = [snapshot_rows EXCEPT ![w] = mem'[w].snapshot]
  /\ ServiceRowUnchanged
  /\ WorkerFrame

\* Line 182: send_alert.
SendAlert(w) ==
  /\ pc[w] = "send_alert"
  /\ pc' = [pc EXCEPT ![w] = "done"]
  /\ mem' = [mem EXCEPT ![w].sent = TRUE]
  /\ ServiceRowUnchanged
  /\ UNCHANGED snapshot_rows
  /\ WorkerFrame

\* A check of the service is saved while the callers run: its run has
\* evaluated it again, or it was switched on or off.
WriteCheckMeanwhile(c, active, status) ==
  /\ status_checks' = [status_checks EXCEPT ![c].active = active,
                                            ![c].calculated_status = status]
  /\ lastOp' = EnvOp
  /\ UNCHANGED <<now, notService, overall_status, old_overall_status,
                 last_alert_sent, alerts_enabled, snapshot, dispatched>>


(* ---------------------------- the user profiles ----------------------- *)

\* The mobile numbers a profile is saved with: none, "1" and "+1".
MobileNumbers == {<<>>, <<"1">>, <<"+", "1">>}

\* Lines 619-620: a leading "+" is dropped.
StripPlus(mobile_number) ==
  IF mobile_number # <<>> /\ Head(mobile_number) = "+"
  THEN Tail(mobile_number)
  ELSE mobile_number

\* ClearOtherFallbacks leaving every row as it is.
ClearOtherFallbacksNever(rows, id, fallback) == rows

\* Lines 622-624: the other rows lose the flag when this profile has it.
ClearOtherFallbacks(rows, id, fallback) ==
  IF fallback
  THEN [p \in DOMAIN rows |->
          IF p # id THEN [rows[p] EXCEPT !.fallback_alert_user = FALSE]
          ELSE rows[p]]
  ELSE rows

\* Line 625: the profile's own row is written.
WriteProfile(rows, id, fallback, mobile_number) ==
  [rows EXCEPT ![id] = [fallback_alert_user |-> fallback,
                        mobile_number |-> mobile_number]]

FallbackProfiles == {p \in ProfileIds : profiles[p].fallback_alert_user}

\* UserProfile.save of the profile id, whose object holds these values.
UserProfileSave(id, fallback, mobile_number) ==
  /\ profiles' = WriteProfile(ClearOtherFallbacks(profiles, id, fallback),
                              id, fallback, StripPlus(mobile_number))
  /\ lastOp' = Op("profile_save",
                  [id |-> id, fallback |-> fallback,
                   cleared |-> FallbackProfiles \ {id}],
                  "none")
  /\ UNCHANGED <<savers, notProfile>>

(* --------------- UserProfile.save, one store operation at a time ------ *)

SaverOp == Op("profile_save_step", NULL, "none")

\* A caller enters save with its object of the profile id.
BeginSave(s, id, fallback, mobile_number) ==
  /\ savers[s].pc = "idle"
  /\ savers' = [savers EXCEPT ![s] =
                  [pc |-> "clear_others", id |-> id,
                   fallback_alert_user |-> fallback,
                   mobile_number |-> StripPlus(mobile_number)]]
  /\ lastOp' = SaverOp
  /\ UNCHANGED <<profiles, notProfile>>

\* Lines 622-624: profiles.update(fallback_alert_user=False).
ClearOthers(s) ==
  /\ savers[s].pc = "clear_others"
  /\ profiles' = ClearOtherFallbacks(profiles, savers[s].id,
                                     savers[s].fallback_alert_user)
  /\ savers' = [savers EXCEPT ![s].pc = "write_own"]
  /\ lastOp' = SaverOp
  /\ UNCHANGED notProfile

\* Line 625: super().save().
WriteOwn(s) ==
  /\ savers[s].pc = "write_own"
  /\ profiles' = WriteProfile(profiles, savers[s].id,
                              savers[s].fallback_alert_user,
                              savers[s].mobile_number)
  /\ savers' = [savers EXCEPT ![s].pc = "idle"]
  /\ lastOp' = SaverOp
  /\ UNCHANGED notProfile


(* --------------------------- the shift synchronizer ------------------- *)

\* str.lower(), on the letters of the names and summaries used here.
LowerChar(ch) ==
  CASE ch = "A" -> "a"
    [] ch = "B" -> "b"
    [] ch = "L" -> "l"
    [] ch = "O" -> "o"
    [] OTHER -> ch

Lower(str) == [i \in 1..Len(str) |-> LowerChar(str[i])]

\* str.strip(): the blanks at both ends are dropped.
RECURSIVE LStrip(_)
LStrip(str) ==
  IF str # <<>> /\ Head(str) = " " THEN LStrip(Tail(str)) ELSE str

RECURSIVE RStrip(_)
RStrip(str) ==
  IF str # <<>> /\ str[Len(str)] = " "
  THEN RStrip(SubSeq(str, 1, Len(str) - 1))
  ELSE str

Strip(str) == RStrip(LStrip(str))

\* The usernames: "Al", "bo", and "AL" for the further users (the usernames
\* are unique as written, not as lowered).
Username(u) ==
  IF u = 1 THEN <<"A", "l">>
  ELSE IF u = 2 THEN <<"b", "o">>
  ELSE <<"A", "L">>

\* The summaries of the feed's events: " AL " and "bo".
Summaries == {<<" ", "A", "L", " ">>, <<"b", "o">>}

EventUids == {"e1", "e2"}

\* The start and the end of an event.
EventSpans == {<<1, 3>>, <<2, 3>>}

Events ==
  {[uid |-> uid, summary |-> summary, start |-> span[1], end |-> span[2]] :
     uid \in EventUids, summary \in Summaries, span \in EventSpans}

\* UserLookup over every user, active or not.
UserLookupAnyUser(e) ==
  LET matching == {u \in UserIds : Lower(users[u].username) = e}
  IN IF matching = {} THEN NULL
     ELSE <<CHOOSE u \in matching : \A v \in matching : v <= u>>

\* Lines 669-672: user_lookup[e], the active user whose lowered username is
\* e; of several, the one the loop reaches last (the rows come by id).
UserLookup(e) ==
  LET matching == {u \in UserIds :
                     users[u].is_active /\ Lower(users[u].username) = e}
  IN IF matching = {} THEN NULL
     ELSE <<CHOOSE u \in matching : \A v \in matching : v <= u>>

\* DeleteFutureShifts marking every shift deleted.
DeleteEveryShift(rows, t) ==
  [i \in DOMAIN rows |-> [rows[i] EXCEPT !.deleted = TRUE]]

\* Lines 673-674: the shifts that start after now are marked deleted.
DeleteFutureShifts(rows, t) ==
  [i \in DOMAIN rows |->
     IF rows[i].start > t THEN [rows[i] EXCEPT !.deleted = TRUE] ELSE rows[i]]

\* UpsertShift adding a row for every event.
UpsertShiftAlwaysCreate(rows, event, user) ==
  [raised |-> "none",
   rows |-> Append(rows, [uid |-> event.uid, start |-> event.start,
                          end |-> event.end, user |-> user,
                          deleted |-> FALSE])]

\* Lines 680-688: the shift of the event's uid is fetched or created, then
\* written.  Shift.objects.get raises when several rows have the uid.
UpsertShift(rows, event, user) ==
  LET found == {i \in DOMAIN rows : rows[i].uid = event.uid}
      row == [uid |-> event.uid, start |-> event.start, end |-> event.end,
              user |-> user, deleted |-> FALSE]
  IN IF Cardinality(found) > 1
     THEN [raised |-> "MultipleObjectsReturned", rows |-> rows]
     ELSE IF found = {}
     THEN [raised |-> "none", rows |-> Append(rows, row)]
     ELSE [raised |-> "none",
           rows |-> [rows EXCEPT ![CHOOSE i \in found : TRUE] = row]]

\* Lines 676-688: the loop over the events, until one raises.
RECURSIVE ApplyEvents(_, _)
ApplyEvents(rows, evs) ==
  IF evs = <<>> THEN [raised |-> "none", rows |-> rows]
  ELSE LET event == Head(evs)
           e == Strip(Lower(event.summary))
           user == UserLookup(e)
       IN IF user = NULL THEN ApplyEvents(rows, Tail(evs))
          ELSE LET out == UpsertShift(rows, event, user[1])
               IN IF out.raised # "none" THEN out
                  ELSE ApplyEvents(out.rows, Tail(evs))

\* update_shifts.
UpdateShifts ==
  LET out == ApplyEvents(DeleteFutureShifts(shifts, now), events)
  IN /\ shifts' = out.rows
     /\ lastOp' = Op("update_shifts",
                     [repeated |-> lastOp.op = "update_shifts"], out.raised)
     /\ UNCHANGED <<now, events, users, notShift>>

\* The calendar gains an event; the uids of a calendar are unique.
AddEvent(event) ==
  /\ \A i \in DOMAIN events : events[i].uid # event.uid
  /\ events' = Append(events, event)
  /\ lastOp' = EnvOp
  /\ UNCHANGED <<now, shifts, users, notShift>>

\* The calendar is emptied.
ClearEvents ==
  /\ events # <<>>
  /\ events' = <<>>
  /\ lastOp' = EnvOp
  /\ UNCHANGED <<now, shifts, users, notShift>>

\* A user is activated or deactivated.
SetUserActive(u, b) ==
  /\ users' = [users EXCEPT ![u].is_active = b]
  /\ lastOp' = EnvOp
  /\ UNCHANGED <<now, shifts, events, notShift>>

(* ---------------------------- the duty officers ----------------------- *)

\* Line 610: the profile p is the profile of the user p.
ProfileUser(p) == p

\* An object of a returned list: its model and its primary key.
Object(model, id) == [model |-> model, id |-> id]

\* The values of a list comprehension over the rows at the indices idx, in
\* the rows' order.
RECURSIVE ShiftUsers(_, _)
ShiftUsers(rows, idx) ==
  IF idx = {} THEN <<>>
  ELSE LET i == CHOOSE k \in idx : \A j \in idx : k <= j
       IN <<Object("User", rows[i].user)>> \o ShiftUsers(rows, idx \ {i})

\* Lines 650-654: the shifts that are not deleted and hold at_time.
current_shifts(rows, at_time) ==
  {i \in DOMAIN rows :
     /\ ~rows[i].deleted
     /\ rows[i].start < at_time
     /\ rows[i].end > at_time}

\* get_duty_officers: the list it returns, or the exception it raises.
get_duty_officers(at_time, rows, profs, t) ==
  LET at == IF at_time = NULL THEN t ELSE at_time[1]
      current == current_shifts(rows, at)
      flagged == {p \in DOMAIN profs : profs[p].fallback_alert_user}
  IN IF current # {}
     THEN [raised |-> "none", officers |-> ShiftUsers(rows, current)]
     ELSE IF flagged = {}
     THEN [raised |-> "none", officers |-> <<>>]
     ELSE IF Cardinality(flagged) > 1
     THEN [raised |-> "MultipleObjectsReturned", officers |-> <<>>]
     ELSE [raised |-> "none",
           officers |-> <<Object("UserProfile", CHOOSE p \in flagged : TRUE)>>]

\* The times get_duty_officers is asked about: none, or a minute.
AtTimes == {NULL} \cup {<<t>> : t \in 0..3}

GetDutyOfficers(at_time) ==
  LET out == get_duty_officers(at_time, shifts, profiles, now)
  IN /\ lastOp' = Op("get_duty_officers",
                     [at_time |-> IF at_time = NULL THEN now ELSE at_time[1],
                      officers |-> out.officers],
                     out.raised)
     /\ UNCHANGED <<now, checkVars, serviceVars, workerVars, profileVars,
                    shiftVars>>

(* ------------------- specifications of the check runs ----------------- *)

NoOp == Op("init", NULL, "none")

InitCheck ==
  /\ now = 0
  /\ debounce \in Debounces
  /\ calculated_status = CALCULATED_PASSING_STATUS
  /\ cached_health = NULL
  /\ last_run = NULL
  /\ status_code = <<200>>
  /\ text_match \in {NULL, <<"pattern">>}
  /\ max_queued_build_time \in {NULL, <<1>>}
  /\ check_type = ">"
  /\ value = 3
  /\ expected_num_hosts = 0
  /\ results = <<>>
  /\ runners = [r \in Runners |-> IdleRunner]
  /\ lastOp = NoOp

InitService ==
  /\ status_checks = [c \in CheckIds |->
                        [active |-> TRUE, importance |-> ERROR_STATUS,
                         calculated_status |-> CALCULATED_PASSING_STATUS]]
  /\ overall_status = PASSING_STATUS
  /\ old_overall_status = PASSING_STATUS
  /\ last_alert_sent = NULL
  /\ alerts_enabled = TRUE
  /\ snapshot = ServiceStatusSnapshot(0, 0, 0, PASSING_STATUS)
  /\ dispatched = FALSE
  /\ pc = [w \in Workers |-> "idle"]
  /\ mem = [w \in Workers |-> NewMem]
  /\ snapshot_rows =
       [w \in Workers |-> ServiceStatusSnapshot(0, 0, 0, PASSING_STATUS)]

NewProfile == [fallback_alert_user |-> FALSE, mobile_number |-> <<>>]

IdleSaver ==
  [pc |-> "idle", id |-> 1, fallback_alert_user |-> FALSE,
   mobile_number |-> <<>>]

InitProfiles ==
  /\ profiles = [p \in ProfileIds |-> NewProfile]
  /\ savers = [s \in Savers |-> IdleSaver]

InitShifts ==
  /\ shifts = <<>>
  /\ events = <<>>
  /\ users = [u \in UserIds |-> [username |-> Username(u), is_active |-> TRUE]]

\* The probes of the debounce specification: the endpoint fails to answer,
\* or answers as expected.
DebounceProbes ==
  {p \in HttpProbes : p.exc \/ (p.code = 200 /\ p.body_matches)}

InitDebounce ==
  /\ InitCheck
  /\ InitService
  /\ InitProfiles
  /\ InitShifts
  /\ text_match = NULL
  /\ max_queued_build_time = NULL

NextDebounce ==
  \E probe \in DebounceProbes : HttpStatusCheckRun(probe, MaxHistory)

SpecDebounce == InitDebounce /\ [][NextDebounce]_vars

InitJenkins ==
  /\ InitCheck
  /\ InitService
  /\ InitProfiles
  /\ InitShifts
  /\ text_match = NULL

NextJenkins ==
  \E answer \in JenkinsAnswers : JenkinsStatusCheckRun(answer, MaxRuns)

SpecJenkins == InitJenkins /\ [][NextJenkins]_vars

InitGraphite ==
  /\ InitService
  /\ InitProfiles
  /\ InitShifts
  /\ now = 0
  /\ debounce = 0
  /\ calculated_status = CALCULATED_PASSING_STATUS
  /\ cached_health = NULL
  /\ last_run = NULL
  /\ status_code = <<200>>
  /\ text_match = NULL
  /\ max_queued_build_time = NULL
  /\ check_type \in CheckTypes
  /\ value = 3
  /\ expected_num_hosts \in {0, 2}
  /\ results = <<>>
  /\ runners = [r \in Runners |-> IdleRunner]
  /\ lastOp = NoOp

NextGraphite ==
  \E series \in MetricSeries : GraphiteStatusCheckRun(series, MaxRuns)

SpecGraphite == InitGraphite /\ [][NextGraphite]_vars

\* Runs of the same check, each once, interleaved at their store operations.
NextRunners ==
  \/ \E r \in Runners :
       \/ \E probe \in DebounceProbes : BeginRun(r, probe)
       \/ FinishProbe(r)
       \/ SaveResult(r)
       \/ ReadRecent(r)
       \/ WriteCheckRow(r)
  \/ TickRun

SpecRunners == InitDebounce /\ [][NextRunners]_vars

(* --------------------- specification of the service ------------------- *)

Init ==
  /\ InitCheck
  /\ debounce = 0
  /\ text_match = NULL
  /\ max_queued_build_time = NULL
  /\ InitService
  /\ InitProfiles
  /\ InitShifts

\* The alert throttle over time: one check of the service changes, the
\* others stay as created.
Next ==
  \/ UpdateStatus
  \/ \E row \in CheckRows : WriteCheck(1, row)
  \/ \E b \in BOOLEAN : SetAlertsEnabled(b)
  \/ Tick(ClockStep, MaxTime)

Spec == Init /\ [][Next]_vars

\* The alert throttle of a service whose alerts stay enabled.
NextAlertsOn ==
  \/ UpdateStatus
  \/ \E row \in CheckRows : WriteCheck(1, row)
  \/ Tick(ClockStep, MaxTime)

SpecAlertsOn == Init /\ [][NextAlertsOn]_vars

\* The aggregation over every check of the service, at one time.
NextAggregate ==
  \/ UpdateStatus
  \/ \E c \in CheckIds, row \in CheckRows : WriteCheck(c, row)
  \/ \E b \in BOOLEAN : SetAlertsEnabled(b)

SpecAggregate == Init /\ [][NextAggregate]_vars

\* Two callers of update_status, each running it once, interleaved at their
\* store operations.
NextWorkers ==
  \/ \E w \in Workers :
       \/ LoadService(w)
       \/ CountFailing(w)
       \/ ReadMostSevere(w)
       \/ CountActive(w)
       \/ CountPassing(w)
       \/ SaveSnapshot(w)
       \/ SaveService(w)
       \/ AlertSave(w)
       \/ MarkSnapshot(w)
       \/ SendAlert(w)
  \/ \E active \in BOOLEAN,
        status \in {CALCULATED_PASSING_STATUS, CALCULATED_FAILING_STATUS} :
       WriteCheckMeanwhile(1, active, status)

SpecWorkers == Init /\ [][NextWorkers]_vars

(* -------------------- specifications of the profiles ------------------ *)

\* A store with at most one fallback profile.
InitProfileStore ==
  /\ InitCheck
  /\ debounce = 0
  /\ text_match = NULL
  /\ max_queued_build_time = NULL
  /\ InitService
  /\ InitShifts
  /\ profiles \in [ProfileIds -> [fallback_alert_user : BOOLEAN,
                                   mobile_number : {<<>>}]]
  /\ Cardinality(FallbackProfiles) <= 1
  /\ savers = [s \in Savers |-> IdleSaver]

\* Saves that do not overlap.
NextProfiles ==
  \E id \in ProfileIds, fallback \in BOOLEAN, mobile_number \in MobileNumbers :
    UserProfileSave(id, fallback, mobile_number)

SpecProfiles == InitProfileStore /\ [][NextProfiles]_vars

\* Saves that overlap.
NextSavers ==
  \E s \in Savers :
    \/ \E id \in ProfileIds, fallback \in BOOLEAN,
          mobile_number \in MobileNumbers :
         BeginSave(s, id, fallback, mobile_number)
    \/ ClearOthers(s)
    \/ WriteOwn(s)

SpecSavers == InitProfileStore /\ [][NextSavers]_vars

(* --------------------- specification of the shifts -------------------- *)

NextShifts ==
  \/ UpdateShifts
  \/ \E event \in Events : AddEvent(event)
  \/ ClearEvents
  \/ \E u \in UserIds, b \in BOOLEAN : SetUserActive(u, b)
  \/ Tick(1, ShiftHorizon)

SpecShifts == Init /\ [][NextShifts]_vars

(* ------------------ specification of the duty officers ---------------- *)

\* The shift rows of the duty specification.
DutyShiftRows(uid) ==
  [uid : {uid}, start : {0}, end : {2}, user : UserIds, deleted : BOOLEAN]
  \cup [uid : {uid}, start : {1}, end : {3}, user : UserIds, deleted : BOOLEAN]

\* Stores of up to two shifts and at most one fallback profile.
InitDuty ==
  /\ InitCheck
  /\ debounce = 0
  /\ text_match = NULL
  /\ max_queued_build_time = NULL
  /\ InitService
  /\ events = <<>>
  /\ users = [u \in UserIds |-> [username |-> Username(u), is_active |-> TRUE]]
  /\ shifts \in {<<>>} \cup {<<r>> : r \in DutyShiftRows("e1")}
                \cup {<<r, q>> : r \in DutyShiftRows("e1"),
                                 q \in DutyShiftRows("e2")}
  /\ profiles = [p \in ProfileIds |-> NewProfile]
  /\ savers = [s \in Savers |-> IdleSaver]

NextDuty ==
  \/ \E at_time \in AtTimes : GetDutyOfficers(at_time)
  \/ \E id \in ProfileIds, fallback \in BOOLEAN :
       UserProfileSave(id, fallback, <<>>)
  \/ Tick(1, ShiftHorizon)

SpecDuty == InitDuty /\ [][NextDuty]_vars

(* ------------------------------- C1 ----------------------------------- *)

\* The d+1 most recently completed results of the whole stored history.
LatestCompleted(rows, d) ==
  SliceTo(OrderByTimeCompleteDesc(rows, DOMAIN rows), d + 1)

\* C1: for every debounce d >= 0 and every stored history, the saved
\* calculated_status is failing when the d+1 most recently completed results
\* are all failures, passing when one of them succeeded, and passing when
\* the history is empty.
C1_DebounceEvaluation ==
  LET w == LatestCompleted(results, debounce)
  IN calculated_status =
       IF results = <<>> THEN CALCULATED_PASSING_STATUS
       ELSE IF \E i \in DOMAIN w : w[i].succeeded
            THEN CALCULATED_PASSING_STATUS
            ELSE CALCULATED_FAILING_STATUS

\* C1's failing input has been stored: debounce 10, a success followed by ten
\* failures.
C1_TenFailuresAfterSuccess ==
  /\ debounce = 10
  /\ Len(results) = 11
  /\ results[1].succeeded
  /\ \A i \in 2..11 : ~results[i].succeeded

(* ------------------------------- C9 ----------------------------------- *)

\* C9: a build-check run whose backend query fails never raises; on
\* HTTPError it records exactly one failed result, on any other exception
\* exactly one succeeded result with an error text; in both cases last_run is
\* set to the completion time and calculated_status is derived again.
C9_BuildCheckResilience ==
  [][(lastOp'.op = "jenkins_run" /\ lastOp'.arg.exc # "none") =>
       /\ lastOp'.raised = "none"
       /\ Len(results') = Len(results) + 1
       /\ SubSeq(results', 1, Len(results)) = results
       /\ LET r == results'[Len(results')]
          IN /\ lastOp'.arg.exc = "HTTPError" => ~r.succeeded
             /\ lastOp'.arg.exc # "HTTPError" => r.succeeded /\ r.error # NULL
             /\ r.time_complete # NULL
             /\ last_run' = r.time_complete
       /\ calculated_status' = SavedStatus(results', debounce')]_vars

\* A generic backend exception was recorded as a success after a not-found
\* failure.
C9_Witness ==
  /\ lastOp.op = "jenkins_run"
  /\ lastOp.arg.exc = "Exception"
  /\ lastOp.raised = "none"
  /\ Len(results) >= 2
  /\ results[Len(results)].succeeded
  /\ results[Len(results)].error = <<"Error fetching from Jenkins">>
  /\ ~results[Len(results) - 1].succeeded
  /\ results[Len(results) - 1].error = <<"Job not found on Jenkins">>

(* ------------------------------- C2 ----------------------------------- *)

SeverityRank(status) ==
  CASE status = CRITICAL_STATUS -> 3
    [] status = ERROR_STATUS -> 2
    [] status = WARNING_STATUS -> 1
    [] OTHER -> 0

\* C2: after update_status, overall_status is the most severe importance
\* among the active checks whose calculated_status is not passing, and
\* PASSING when there is none; overall_status is always one of the four
\* statuses.
C2_SeverityAggregation ==
  /\ overall_status \in
       {PASSING_STATUS, WARNING_STATUS, ERROR_STATUS, CRITICAL_STATUS}
  /\ lastOp.op = "update_status" =>
       LET failing == {c \in CheckIds :
                         /\ status_checks[c].active
                         /\ status_checks[c].calculated_status # "passing"}
       IN IF failing = {} THEN overall_status = PASSING_STATUS
          ELSE /\ \E c \in failing : overall_status = status_checks[c].importance
               /\ \A c \in failing :
                    SeverityRank(status_checks[c].importance)
                      <= SeverityRank(overall_status)

\* update_status has aggregated an active failing CRITICAL check beside an
\* active failing ERROR check.
C2_Witness ==
  /\ lastOp.op = "update_status"
  /\ overall_status = CRITICAL_STATUS
  /\ \E c, d \in CheckIds :
       /\ status_checks[c].active
       /\ status_checks[c].calculated_status = "failing"
       /\ status_checks[c].importance = CRITICAL_STATUS
       /\ status_checks[d].active
       /\ status_checks[d].calculated_status = "failing"
       /\ status_checks[d].importance = ERROR_STATUS

(* ------------------------------- C3 ----------------------------------- *)

\* C3: an evaluation of a service with alerts enabled whose new status is not
\* PASSING, made less than 10 minutes (ERROR, CRITICAL) or 120 minutes
\* (WARNING) after last_alert_sent, leaves last_alert_sent unchanged, does not
\* mark the snapshot and dispatches nothing; made later, or with
\* last_alert_sent null, it sets last_alert_sent to now, marks the snapshot
\* and dispatches.
C3_AlertSuppressionWindow ==
  [][(/\ lastOp'.op = "update_status"
      /\ alerts_enabled
      /\ overall_status' # PASSING_STATUS) =>
       LET cooldown == IF overall_status' = WARNING_STATUS THEN 120 ELSE 10
           inside == /\ last_alert_sent # NULL
                     /\ now - last_alert_sent[1] < cooldown
       IN IF inside
          THEN /\ last_alert_sent' = last_alert_sent
               /\ ~snapshot'.did_send_alert
               /\ ~dispatched'
          ELSE /\ last_alert_sent' = <<now>>
               /\ snapshot'.did_send_alert
               /\ dispatched']_vars

\* A WARNING evaluation was suppressed more than 10 minutes after the last
\* alert.
C3_Witness ==
  /\ lastOp.op = "update_status"
  /\ alerts_enabled
  /\ overall_status = WARNING_STATUS
  /\ last_alert_sent # NULL
  /\ now - last_alert_sent[1] >= 10
  /\ now - last_alert_sent[1] < 120
  /\ ~dispatched
  /\ ~snapshot.did_send_alert

(* ------------------------------- C4 ----------------------------------- *)

Recovers ==
  /\ lastOp'.op = "update_status"
  /\ alerts_enabled
  /\ overall_status # PASSING_STATUS
  /\ overall_status' = PASSING_STATUS

\* C4, as stated: when update_status moves a service with alerts enabled from
\* a status that is not PASSING to PASSING, last_alert_sent becomes null, no
\* notification is dispatched and the snapshot is not marked did_send_alert.
C4_RecoveryNeverSends ==
  [][Recovers =>
       /\ last_alert_sent' = NULL
       /\ ~dispatched'
       /\ ~snapshot'.did_send_alert]_vars

\* C4, amended: when update_status moves a service with alerts enabled from a
\* status that is not PASSING to PASSING, last_alert_sent becomes null, and
\* the recovery is dispatched through send_alert, never throttled, with the
\* snapshot of the cycle marked did_send_alert.
C4_RecoveryResetsThrottle ==
  [][Recovers =>
       /\ last_alert_sent' = NULL
       /\ dispatched'
       /\ snapshot'.did_send_alert]_vars

\* A service recovered within ten minutes of its last alert.
C4_Witness ==
  /\ lastOp.op = "update_status"
  /\ alerts_enabled
  /\ old_overall_status = ERROR_STATUS
  /\ overall_status = PASSING_STATUS
  /\ last_alert_sent = NULL
  /\ dispatched

(* ------------------------------- C10 ---------------------------------- *)

\* C10: for a service with alerts disabled, an evaluation changes neither
\* last_alert_sent nor the snapshot's did_send_alert and dispatches nothing,
\* whatever the old and the new status.
C10_AlertsDisabledNoOp ==
  [][(lastOp'.op = "update_status" /\ ~alerts_enabled) =>
       /\ last_alert_sent' = last_alert_sent
       /\ ~snapshot'.did_send_alert
       /\ ~dispatched']_vars

\* A service with alerts disabled went from PASSING to CRITICAL with no alert
\* sent before.
C10_Witness ==
  /\ lastOp.op = "update_status"
  /\ ~alerts_enabled
  /\ old_overall_status = PASSING_STATUS
  /\ overall_status = CRITICAL_STATUS
  /\ last_alert_sent = NULL
  /\ ~dispatched
  /\ ~snapshot.did_send_alert

(* ------------------------------- C5 ----------------------------------- *)

\* C5: when two executions of update_status for the same service interleave
\* and both find the service not PASSING with no alert sent inside the
\* cooldown, at most one of them dispatches a notification.  (The clock
\* stands still here, so a caller that dispatches for a status that is not
\* PASSING has read last_alert_sent as null.)
C5_NoDoubleSend ==
  ~ \E v, w \in Workers :
      /\ v # w
      /\ mem[v].sent /\ mem[v].overall_status # PASSING_STATUS
      /\ mem[w].sent /\ mem[w].overall_status # PASSING_STATUS

(* ------------------------------- C6 ----------------------------------- *)

\* C6: from a store with at most one fallback profile, after any sequence of
\* saves that do not overlap at most one profile is flagged, and a save of a
\* profile with the flag leaves it the only one flagged.
C6_FallbackUniqueness ==
  /\ Cardinality({p \in ProfileIds : profiles[p].fallback_alert_user}) <= 1
  /\ (lastOp.op = "profile_save" /\ lastOp.arg.fallback) =>
       {p \in ProfileIds : profiles[p].fallback_alert_user} = {lastOp.arg.id}

\* A profile was saved as the fallback while another one was.
C6_Witness ==
  /\ lastOp.op = "profile_save"
  /\ lastOp.arg.fallback
  /\ lastOp.arg.cleared # {}
  /\ profiles[lastOp.arg.id].fallback_alert_user

(* ------------------------------- C7 ----------------------------------- *)

\* C7: when two saves of two different profiles, both with the flag,
\* interleave at their store operations, no reachable state has more than one
\* stored profile flagged.
C7_ConcurrentFallbackUniqueness ==
  (\E s, t \in Savers :
     /\ savers[s].id # savers[t].id
     /\ savers[s].fallback_alert_user
     /\ savers[t].fallback_alert_user) =>
    Cardinality({p \in ProfileIds : profiles[p].fallback_alert_user}) <= 1

(* ------------------------------- C8 ----------------------------------- *)

\* C8: update_shifts run twice in a row, with the same feed, the same active
\* users and the same time, leaves after the second run exactly the shift
\* rows of the first: no further row, no changed start, end, user or deleted
\* flag.
C8_ShiftSyncIdempotent ==
  [][(lastOp.op = "update_shifts" /\ lastOp'.op = "update_shifts") =>
       shifts' = shifts]_vars

\* A second run in a row has deleted and restored a future shift, beside a
\* shift that stays deleted.
C8_Witness ==
  /\ lastOp.op = "update_shifts"
  /\ lastOp.arg.repeated
  /\ \E i \in DOMAIN shifts : shifts[i].start > now /\ ~shifts[i].deleted
  /\ \E i \in DOMAIN shifts : shifts[i].start > now /\ shifts[i].deleted

(* ------------------------------- C11 ---------------------------------- *)

\* C11: on a service with alerts enabled, every update_status that moves
\* overall_status from a status that is not CRITICAL into CRITICAL
\* (is_critical) dispatches a notification in that cycle, whenever the
\* earlier alert was sent.
C11_NoMissedCriticalTransition ==
  [][(/\ lastOp'.op = "update_status"
      /\ alerts_enabled
      /\ is_critical(overall_status, overall_status')) => dispatched']_vars

(* ------------------------------- C12 ---------------------------------- *)

\* C12: get_duty_officers(at_time) returns the users of exactly the shifts
\* that are not deleted and have start < at_time < end; with no such shift
\* it returns the one user flagged as fallback alert user; with no flagged
\* profile it returns the empty list; it does not raise.
C12_DutyOfficerResolution ==
  lastOp.op = "get_duty_officers" =>
    LET current == current_shifts(shifts, lastOp.arg.at_time)
    IN /\ lastOp.raised = "none"
       /\ current # {} =>
            lastOp.arg.officers = ShiftUsers(shifts, current)
       /\ (current = {} /\ FallbackProfiles = {}) =>
            lastOp.arg.officers = <<>>
       /\ \A p \in ProfileIds :
            (current = {} /\ FallbackProfiles = {p}) =>
              lastOp.arg.officers = <<Object("User", ProfileUser(p))>>

(* ------------------------------- C13 ---------------------------------- *)

\* C13: every run of a check that returns normally appends exactly one
\* result with its start and completion times, sets last_run to that
\* completion time, and leaves calculated_status equal to the debounce
\* evaluation (of the debounce+1 most recently completed results) of the
\* history with the result just written.
C13_RunContract ==
  [][(/\ lastOp'.op \in {"http_run", "jenkins_run", "graphite_run"}
      /\ lastOp'.raised = "none") =>
       /\ Len(results') = Len(results) + 1
       /\ SubSeq(results', 1, Len(results)) = results
       /\ LET r == results'[Len(results')]
              w == LatestCompleted(results', debounce')
          IN /\ r.time = <<now>>
             /\ r.time_complete = <<now'>>
             /\ last_run' = r.time_complete
             /\ r \in {w[i] : i \in DOMAIN w}
             /\ calculated_status' =
                  IF \E i \in DOMAIN w : w[i].succeeded
                  THEN CALCULATED_PASSING_STATUS
                  ELSE CALCULATED_FAILING_STATUS]_vars

(* ------------------------------- C14 ---------------------------------- *)

\* C14: from an empty history and with debounce d, after k failed runs in a
\* row, 1 <= k <= d, calculated_status is still passing; it is failing once
\* d+1 failed results in a row are recorded.
C14_FlipsAfterDebouncePlusOne ==
  (results # <<>> /\ \A i \in DOMAIN results : ~results[i].succeeded) =>
    calculated_status =
      IF Len(results) <= debounce THEN CALCULATED_PASSING_STATUS
      ELSE CALCULATED_FAILING_STATUS

(* ------------------------------- C15 ---------------------------------- *)

\* The feed holds an event of this uid whose summary names an active user.
MatchedUid(uid) ==
  \E j \in DOMAIN events :
     /\ events[j].uid = uid
     /\ UserLookup(Strip(Lower(events[j].summary))) # NULL

\* C15, as stated: update_shifts changes no field of a shift whose start is
\* not after the current time, whatever the feed, and removes no shift
\* record.
C15_PastShiftsUntouched ==
  [][lastOp'.op = "update_shifts" =>
       /\ Len(shifts') >= Len(shifts)
       /\ \A i \in DOMAIN shifts :
            /\ shifts'[i].uid = shifts[i].uid
            /\ shifts[i].start <= now => shifts'[i] = shifts[i]]_vars

\* C15, amended: update_shifts removes no shift record, and changes no field
\* of a shift whose start is not after the current time unless the feed
\* holds an event of the shift's uid that names an active user.
C15_UnlistedPastShiftsUntouched ==
  [][lastOp'.op = "update_shifts" =>
       /\ Len(shifts') >= Len(shifts)
       /\ \A i \in DOMAIN shifts :
            /\ shifts'[i].uid = shifts[i].uid
            /\ (shifts[i].start <= now /\ ~MatchedUid(shifts[i].uid)) =>
                 shifts'[i] = shifts[i]]_vars

\* A run has left a started shift that the feed does not list as it was,
\* not deleted, and has deleted a future one.
C15_Witness ==
  /\ lastOp.op = "update_shifts"
  /\ \E i \in DOMAIN shifts :
       /\ shifts[i].start <= now
       /\ ~MatchedUid(shifts[i].uid)
       /\ ~shifts[i].deleted
  /\ \E i \in DOMAIN shifts : shifts[i].start > now /\ shifts[i].deleted

(* ------------------------------- C16 ---------------------------------- *)

\* The active users an event's trimmed, lowercased summary names.
NamedUsers(event) ==
  {u \in UserIds :
     /\ users[u].is_active
     /\ Lower(Strip(event.summary)) = Lower(users[u].username)}

\* The events of the feed with this uid that name an active user.
NamingEvents(uid) ==
  {j \in DOMAIN events : events[j].uid = uid /\ NamedUsers(events[j]) # {}}

\* C16: after update_shifts on a feed of distinct uids, a shift that starts
\* after the current time is not deleted exactly when the feed holds an event
\* of its uid whose trimmed, lowercased summary is the lowercased username of
\* an active user, and then its start, end and user are the event's; an
\* event that names no active user creates no shift and restores none.
C16_CalendarAuthoritative ==
  [][lastOp'.op = "update_shifts" =>
       /\ \A i \in DOMAIN shifts' :
            shifts'[i].start > now =>
              /\ ~shifts'[i].deleted <=> NamingEvents(shifts'[i].uid) # {}
              /\ \A j \in NamingEvents(shifts'[i].uid) :
                   /\ shifts'[i].start = events[j].start
                   /\ shifts'[i].end = events[j].end
                   /\ shifts'[i].user \in NamedUsers(events[j])
       /\ \A i \in DOMAIN shifts' :
            NamingEvents(shifts'[i].uid) = {} =>
              /\ i \in DOMAIN shifts
              /\ shifts[i].deleted => shifts'[i].deleted]_vars

\* A run has written a future shift from its event and has left deleted a
\* future shift whose event names a user who is not active.
C16_Witness ==
  /\ lastOp.op = "update_shifts"
  /\ \E i \in DOMAIN shifts :
       /\ shifts[i].start > now
       /\ ~shifts[i].deleted
       /\ NamingEvents(shifts[i].uid) # {}
  /\ \E i \in DOMAIN shifts :
       /\ shifts[i].start > now
       /\ shifts[i].deleted
       /\ NamingEvents(shifts[i].uid) = {}
       /\ \E j \in DOMAIN events : events[j].uid = shifts[i].uid

(* ------------------------------- C17 ---------------------------------- *)

\* C17: when two runs of the same check interleave, then once both have
\* finished the stored calculated_status is the debounce evaluation of the
\* stored results, latest completion first.
C17_ConcurrentRunsStatus ==
  (\A r \in Runners : runners[r].pc = "done") =>
    LET w == LatestCompleted(results, debounce)
    IN calculated_status =
         IF \E i \in DOMAIN w : w[i].succeeded
         THEN CALCULATED_PASSING_STATUS
         ELSE CALCULATED_FAILING_STATUS

(* ------------------------------- C18 ---------------------------------- *)

\* The caller is in an alert that was not suppressed and has not called
\* send_alert yet.
SendPending(w) == pc[w] \in {"mark_snapshot", "send_alert"}

\* C18: in an alert that is not suppressed, the new last_alert_sent and the
\* snapshot's did_send_alert = true are stored only once send_alert has been
\* called: no state holds them for an alert whose send is still to come.
C18_CommitAfterSend ==
  \A w \in Workers :
    SendPending(w) =>
      /\ ~snapshot_rows[w].did_send_alert
      /\ mem[w].overall_status # PASSING_STATUS =>
           last_alert_sent # mem[w].last_alert_sent

(* ------------------------------- C19 ---------------------------------- *)

\* C19: whenever the metrics backend reports error = true for the query of a
\* metric check, the result the run records has succeeded = false and a null
\* failure_value, whatever num_series_with_data, the operator, the threshold
\* and expected_num_hosts are.
C19_MetricQueryError ==
  [][(/\ lastOp'.op = "graphite_run"
      /\ lastOp'.raised = "none"
      /\ lastOp'.arg.series.error) =>
       /\ Len(results') = Len(results) + 1
       /\ ~results'[Len(results')].succeeded
       /\ lastOp'.arg.failure_value = NULL]_vars

(* ------------------------------- C20 ---------------------------------- *)

\* C20: when the build server reports the job as not active, the run of the
\* build check does not raise and records exactly one result with
\* succeeded = false, then sets last_run and derives calculated_status.
C20_DisabledBuildJob ==
  [][(/\ lastOp'.op = "jenkins_run"
      /\ lastOp'.arg.exc = "none"
      /\ ~lastOp'.arg.active) =>
       /\ lastOp'.raised = "none"
       /\ Len(results') = Len(results) + 1
       /\ SubSeq(results', 1, Len(results)) = results
       /\ ~results'[Len(results')].succeeded
       /\ last_run' = results'[Len(results')].time_complete
       /\ calculated_status' = SavedStatus(results', debounce')]_vars

(* ------------------------------- C21 ---------------------------------- *)

\* C21: every snapshot update_status writes has num_checks_active =
\* num_checks_passing + num_checks_failing with the three counts >= 0, and
\* has overall_status PASSING exactly when num_checks_failing = 0, also when
\* another process changes a check's calculated_status or active flag
\* between the reads of update_status.
C21_SnapshotConsistency ==
  \A w \in Workers :
    LET snap == snapshot_rows[w]
    IN /\ snap.num_checks_active =
            snap.num_checks_passing + snap.num_checks_failing
       /\ snap.num_checks_active >= 0
       /\ snap.num_checks_passing >= 0
       /\ snap.num_checks_failing >= 0
       /\ snap.overall_status = PASSING_STATUS <=> snap.num_checks_failing = 0

(* ------------------------------- C22 ---------------------------------- *)

\* C22: for a service that starts PASSING with last_alert_sent null and keeps
\* its alerts enabled, after any sequence of update_status calls that do not
\* overlap, with any changes to its checks in between, overall_status =
\* PASSING implies that last_alert_sent is null.
C22_PassingImpliesClearedThrottle ==
  overall_status = PASSING_STATUS => last_alert_sent = NULL

\* The service is back to PASSING from WARNING, inside the 120 minutes of
\* the alert it had sent.
C22_Witness ==
  /\ lastOp.op = "update_status"
  /\ alerts_enabled
  /\ old_overall_status = WARNING_STATUS
  /\ overall_status = PASSING_STATUS
  /\ snapshot.did_send_alert
  /\ now >= ClockStep
  /\ now < WarningCooldown

====
